---- MODULE Spec2Model ----
(***************************************************************************)
(* Model of electoral_college.py: the two-column tab-delimited loader      *)
(* to_dict (lines 33-60), read_data (62-77) and the tally get_winner       *)
(* (4-31).                                                                 *)
(*                                                                         *)
(* A Python str is a sequence of one-character strings, a dict is a        *)
(* function whose DOMAIN is its key set.  The text file is the sequence of *)
(* its lines, each without its line terminator (strip() removes it).       *)
(***************************************************************************)
EXTENDS Integers, Sequences, FiniteSets, TLC

VARIABLES
    pc,             \* where the program is: "to_dict", "loaded", "get_winner", "returned", "raised"
    value_type,     \* to_dict's value_type argument: "str" or "int"
    f,              \* the lines of the file that to_dict has read so far
    n,              \* to_dict's line counter n (0 before the first line)
    lines,          \* to_dict's dict
    exc,            \* the exception raised: "none", "ValueError", "KeyError"
    msg,            \* the exception's message kind: "", "columns", "int", "outcome", "key"
    err_n,          \* the line number in to_dict's message (0 when none)
    phase,          \* 1: loading the input file; 2: loading the re-serialised text
    out,            \* the re-serialised text that is still to be read in phase 2
    ret,            \* what to_dict returned: <<dict>>, or <<>> when nothing
    M,              \* the mapping the first load returned
    elector_dict,   \* get_winner's first argument
    outcome_dict,   \* get_winner's second argument
    items,          \* the keys of outcome_dict in iteration order
    i,              \* number of entries of outcome_dict.items() already processed
    total_R_votes,
    total_D_votes,
    result,         \* what get_winner returned: <<party, votes>>, or <<>> when nothing
    prev,           \* the outcome of the previous call of get_winner, or <<>> when none
    calls           \* number of calls of get_winner started

vars == <<pc, value_type, f, n, lines, exc, msg, err_n, phase, out, ret, M,
          elector_dict, outcome_dict, items, i, total_R_votes, total_D_votes,
          result, prev, calls>>

loadVars == <<value_type, f, n, lines, err_n, phase, out, ret, M>>
tallyVars == <<elector_dict, outcome_dict, items, i, total_R_votes, total_D_votes,
               result, prev, calls>>

\* ---------------------------------------------------------------- bounds
\* Length of the input file in characters, each line counted with its terminator.
MaxFileLen == 8
\* Largest elector count of a mapping handed directly to get_winner.
MaxVotes == 2

\* ---------------------------------------------------------------- strings
TAB == "\t"
SP == " "
\* Characters str.strip() removes (those of them that the alphabets use).
Whitespace == {" ", "\t", "\n", "\r"}

\* The characters the input files are written in.
StrChars == {"A", "B", TAB, SP}
IntChars == {"A", "B", "1", "-", TAB}

Strs(chars, k) == UNION {[1..m -> chars] : m \in 0..k}

EmptyDict == [k \in {} |-> 0]

\* Mutant of Store: a key that is already present keeps its value (setdefault).
StoreKeepsFirst(d, key, value) ==
    [k \in (DOMAIN d) \cup {key} |-> IF k \in DOMAIN d THEN d[k] ELSE value]

\* d[key] = value, as a new dict
Store(d, key, value) ==
    [k \in (DOMAIN d) \cup {key} |-> IF k = key THEN value ELSE d[k]]

RECURSIVE LStrip(_)
LStrip(s) ==
    IF s # <<>> /\ Head(s) \in Whitespace THEN LStrip(Tail(s)) ELSE s

RECURSIVE RStrip(_)
RStrip(s) ==
    IF s # <<>> /\ s[Len(s)] \in Whitespace THEN RStrip(SubSeq(s, 1, Len(s) - 1)) ELSE s

\* line.strip()
Strip(s) == RStrip(LStrip(s))

\* line.split("\t"): cut at every tab; always at least one field
RECURSIVE Split(_)
Split(s) ==
    IF \E j \in 1..Len(s) : s[j] = TAB
    THEN LET j == CHOOSE j \in 1..Len(s) : s[j] = TAB /\ \A h \in 1..(j - 1) : s[h] # TAB
         IN  <<SubSeq(s, 1, j - 1)>> \o Split(SubSeq(s, j + 1, Len(s)))
    ELSE <<s>>

\* "\t".join(fields)
RECURSIVE Join(_)
Join(fields) ==
    IF Len(fields) = 0 THEN <<>>
    ELSE IF Len(fields) = 1 THEN fields[1]
    ELSE fields[1] \o <<TAB>> \o Join(Tail(fields))

Digits == {"0", "1", "2", "3", "4", "5", "6", "7", "8", "9"}

DigitVal(c) ==
    CASE c = "0" -> 0 [] c = "1" -> 1 [] c = "2" -> 2 [] c = "3" -> 3 [] c = "4" -> 4
      [] c = "5" -> 5 [] c = "6" -> 6 [] c = "7" -> 7 [] c = "8" -> 8 [] c = "9" -> 9

RECURSIVE Base10(_)
Base10(ds) ==
    IF ds = <<>> THEN 0 ELSE 10 * Base10(SubSeq(ds, 1, Len(ds) - 1)) + DigitVal(ds[Len(ds)])

\* int(s) accepts surrounding whitespace, one optional sign and at least one digit
IntBody(s) ==
    LET t == Strip(s)
    IN  IF t # <<>> /\ Head(t) \in {"-", "+"} THEN Tail(t) ELSE t

IntOk(s) == IntBody(s) # <<>> /\ \A j \in 1..Len(IntBody(s)) : IntBody(s)[j] \in Digits

IntVal(s) ==
    IF Head(Strip(s)) = "-" THEN 0 - Base10(IntBody(s)) ELSE Base10(IntBody(s))

\* value_type(values[1]) succeeds
ConvertOk(vt, s) == vt = "str" \/ IntOk(s)

\* value_type(values[1])
Convert(vt, s) == IF vt = "str" THEN s ELSE IntVal(s)

\* ---------------------------------------------------------------- to_dict
Chars == IF value_type = "int" THEN IntChars ELSE StrChars

\* characters of the lines read so far, terminators included
RECURSIVE Cost(_)
Cost(file) == IF file = <<>> THEN 0 ELSE Len(Head(file)) + 1 + Cost(Tail(file))

Perms(S) ==
    {s \in [1..Cardinality(S) -> S] : \A a, b \in 1..Cardinality(S) : a # b => s[a] # s[b]}

Dicts(K, V) == UNION {[D -> V] : D \in SUBSET K}

\* Mutant of LineKind: len(values) < 2, so a line with extra columns is stored.
LineKindAtLeastTwo(vt, line) ==
    LET stripped == Strip(line)
        values == Split(stripped)
    IN  IF stripped = <<>> THEN "blank"
        ELSE IF Len(values) < 2 THEN "columns"
        ELSE IF ~ConvertOk(vt, values[2]) THEN "convert"
        ELSE "store"

\* What the loop body does with a line (lines 53-59): "blank" (continue), "columns"
\* (raise, wrong number of columns), "convert" (value_type raises) or "store".
LineKind(vt, line) ==
    LET stripped == Strip(line)
        values == Split(stripped)
    IN  IF stripped = <<>> THEN "blank"
        ELSE IF Len(values) # 2 THEN "columns"
        ELSE IF ~ConvertOk(vt, values[2]) THEN "convert"
        ELSE "store"

\* Mutant of StoreLine: the two columns are swapped.
StoreLineSwapped(d, vt, line) ==
    LET values == Split(Strip(line))
    IN  Store(d, values[2], Convert(vt, values[1]))

\* lines[values[0]] = value_type(values[1])  (line 59)
StoreLine(d, vt, line) ==
    LET values == Split(Strip(line))
    IN  Store(d, values[1], Convert(vt, values[2]))

\* Mutant of Start: enumerate(f), which counts from zero.
StartAtZero == 1 - 1

\* enumerate(f, start=1)
Start == 1

\* One pass of the loop body (lines 52-59) on the next line of the file.
ToDictLine(line) ==
    LET kind == LineKind(value_type, line)
    IN  /\ n' = IF f = <<>> THEN Start ELSE n + 1
        /\ f' = Append(f, line)
        /\ CASE kind = "blank" ->
                  UNCHANGED <<pc, lines, exc, msg, err_n>>
             [] kind = "columns" ->
                  /\ pc' = "raised"
                  /\ exc' = "ValueError"
                  /\ msg' = "columns"
                  /\ err_n' = n'
                  /\ UNCHANGED lines
             [] kind = "convert" ->
                  /\ pc' = "raised"
                  /\ exc' = "ValueError"
                  /\ msg' = "int"
                  /\ UNCHANGED <<lines, err_n>>
             [] kind = "store" ->
                  /\ lines' = StoreLine(lines, value_type, line)
                  /\ UNCHANGED <<pc, exc, msg, err_n>>

\* The file yields its next line (any line that fits the bound).
ToDictRead ==
    /\ pc = "to_dict"
    /\ phase = 1
    /\ \E line \in Strs(Chars, MaxFileLen - Cost(f) - 1) : ToDictLine(line)
    /\ UNCHANGED <<value_type, phase, out, ret, M>>
    /\ UNCHANGED tallyVars

\* The re-serialised text yields its next line.
ToDictReread ==
    /\ pc = "to_dict"
    /\ phase = 2
    /\ out # <<>>
    /\ ToDictLine(Head(out))
    /\ out' = Tail(out)
    /\ UNCHANGED <<value_type, phase, ret, M>>
    /\ UNCHANGED tallyVars

\* End of file: return lines (line 60).
ToDictReturn ==
    /\ pc = "to_dict"
    /\ phase = 2 => out = <<>>
    /\ pc' = "loaded"
    /\ ret' = <<lines>>
    /\ UNCHANGED <<value_type, f, n, lines, exc, msg, err_n, phase, out, M>>
    /\ UNCHANGED tallyVars

\* The caller of to_dict(filename) writes every pair of the returned mapping as the
\* line key<TAB>value, in any order, and calls to_dict on that text.
Reserialize ==
    /\ pc = "loaded"
    /\ phase = 1
    /\ value_type = "str"
    /\ \E order \in Perms(DOMAIN lines) :
           out' = [j \in 1..Len(order) |-> Join(<<order[j], lines[order[j]]>>)]
    /\ M' = lines
    /\ phase' = 2
    /\ pc' = "to_dict"
    /\ f' = <<>>
    /\ n' = 0
    /\ lines' = EmptyDict
    /\ ret' = <<>>
    /\ UNCHANGED <<value_type, exc, msg, err_n>>
    /\ UNCHANGED tallyVars

\* ---------------------------------------------------------------- get_winner
R == <<"R">>
D == <<"D">>
\* the values an outcome mapping is drawn from; X is neither 'R' nor 'D'
Outcomes == {R, D, <<"X">>}
States == {<<"A">>, <<"B">>, <<"C">>}
ElectorValues == {0 - 1} \cup (0..MaxVotes)

\* Mutant of Entry: an outcome that is neither 'R' nor 'D' is skipped instead of raising.
EntrySkipsInvalid(e, state, outcome, tr, td) ==
    IF outcome \in {R, D} /\ state \notin DOMAIN e
    THEN [exc |-> "KeyError", r |-> tr, d |-> td]
    ELSE [exc |-> "none",
          r |-> IF outcome = R THEN tr + e[state] ELSE tr,
          d |-> IF outcome = D THEN td + e[state] ELSE td]

\* Mutant of Entry: elector_dict.get(state, 0) instead of elector_dict[state].
EntryGetDefault(e, state, outcome, tr, td) ==
    LET votes == IF state \in DOMAIN e THEN e[state] ELSE 0
    IN  IF outcome = R THEN [exc |-> "none", r |-> tr + votes, d |-> td]
        ELSE IF outcome = D THEN [exc |-> "none", r |-> tr, d |-> td + votes]
        ELSE [exc |-> "ValueError", r |-> tr, d |-> td]

RECURSIVE SumOf(_, _)
\* the sum of e[k] over the keys k in S
SumOf(e, S) ==
    IF S = {} THEN 0
    ELSE LET k == CHOOSE k \in S : TRUE IN e[k] + SumOf(e, S \ {k})

\* Mutant of Entry: every elector count is added, not only the entry's own.
EntrySumsAll(e, state, outcome, tr, td) ==
    IF outcome \notin {R, D} THEN [exc |-> "ValueError", r |-> tr, d |-> td]
    ELSE IF state \notin DOMAIN e THEN [exc |-> "KeyError", r |-> tr, d |-> td]
    ELSE [exc |-> "none",
          r |-> IF outcome = R THEN tr + SumOf(e, DOMAIN e) ELSE tr,
          d |-> IF outcome = D THEN td + SumOf(e, DOMAIN e) ELSE td]

\* Mutant of Entry: the 'D' branch adds to the R total.
EntryWrongTotal(e, state, outcome, tr, td) ==
    IF outcome \notin {R, D} THEN [exc |-> "ValueError", r |-> tr, d |-> td]
    ELSE IF state \notin DOMAIN e THEN [exc |-> "KeyError", r |-> tr, d |-> td]
    ELSE [exc |-> "none", r |-> tr + e[state], d |-> td]

\* The loop body (lines 19-24) on one entry: the exception it raises ("none" when it
\* raises nothing) and the two totals after it.
Entry(e, state, outcome, tr, td) ==
    IF outcome = R
    THEN IF state \in DOMAIN e
         THEN [exc |-> "none", r |-> tr + e[state], d |-> td]
         ELSE [exc |-> "KeyError", r |-> tr, d |-> td]
    ELSE IF outcome = D
    THEN IF state \in DOMAIN e
         THEN [exc |-> "none", r |-> tr, d |-> td + e[state]]
         ELSE [exc |-> "KeyError", r |-> tr, d |-> td]
    ELSE [exc |-> "ValueError", r |-> tr, d |-> td]

\* Mutant of Decide: >= in the first comparison, so a tie is reported as R.
DecideTieIsR(tr, td) ==
    IF tr >= td THEN <<"R", tr>>
    ELSE IF td > tr THEN <<"D", td>>
    ELSE <<"Tie", tr>>

\* The decision after the loop (lines 26-31).
Decide(tr, td) ==
    IF tr > td THEN <<"R", tr>>
    ELSE IF td > tr THEN <<"D", td>>
    ELSE <<"Tie", tr>>

\* One pass of the loop (lines 18-24) on the next entry of outcome_dict.items().
TallyEntry ==
    /\ pc = "get_winner"
    /\ i < Len(items)
    /\ LET state == items[i + 1]
           after == Entry(elector_dict, state, outcome_dict[state],
                          total_R_votes, total_D_votes)
       IN  /\ total_R_votes' = after.r
           /\ total_D_votes' = after.d
           /\ exc' = after.exc
           /\ pc' = IF after.exc = "none" THEN pc ELSE "raised"
           /\ msg' = IF after.exc = "ValueError" THEN "outcome"
                     ELSE IF after.exc = "KeyError" THEN "key" ELSE msg
    /\ i' = i + 1
    /\ UNCHANGED <<elector_dict, outcome_dict, items, result, prev, calls>>
    /\ UNCHANGED loadVars

\* Mutant of TallyReturn: the elector mapping is emptied on the way out.
TallyReturnClears ==
    /\ pc = "get_winner"
    /\ i = Len(items)
    /\ result' = Decide(total_R_votes, total_D_votes)
    /\ pc' = "returned"
    /\ elector_dict' = EmptyDict
    /\ UNCHANGED <<outcome_dict, items, i, total_R_votes, total_D_votes,
                   prev, calls, exc, msg>>
    /\ UNCHANGED loadVars

\* The loop is over: return the decision (lines 26-31).
TallyReturn ==
    /\ pc = "get_winner"
    /\ i = Len(items)
    /\ result' = Decide(total_R_votes, total_D_votes)
    /\ pc' = "returned"
    /\ UNCHANGED <<elector_dict, outcome_dict, items, i, total_R_votes, total_D_votes,
                   prev, calls, exc, msg>>
    /\ UNCHANGED loadVars

\* e and e2 agree on every key of o
Agree(e, e2, o) ==
    \A k \in DOMAIN o :
        /\ k \in DOMAIN e <=> k \in DOMAIN e2
        /\ k \in DOMAIN e => e[k] = e2[k]

\* The caller calls get_winner again: with the same outcome mapping and an elector
\* mapping that agrees with the first one on the outcome mapping's keys.
CallAgain ==
    /\ pc \in {"returned", "raised"}
    /\ calls = 1
    /\ prev' = <<[exc |-> exc, result |-> result, elector_dict |-> elector_dict,
                  total_R_votes |-> total_R_votes, total_D_votes |-> total_D_votes]>>
    /\ \E e2 \in Dicts(States, ElectorValues) :
           /\ Agree(elector_dict, e2, outcome_dict)
           /\ elector_dict' = e2
    /\ calls' = 2
    /\ pc' = "get_winner"
    /\ i' = 0
    /\ total_R_votes' = 0
    /\ total_D_votes' = 0
    /\ result' = <<>>
    /\ exc' = "none"
    /\ msg' = ""
    /\ UNCHANGED <<outcome_dict, items>>
    /\ UNCHANGED loadVars

\* read_data has returned the elector mapping (line 75); get_winner is called with it
\* and an outcome mapping (line 99).
StartTally ==
    /\ pc = "loaded"
    /\ value_type = "int"
    /\ calls = 0
    /\ elector_dict' = lines
    /\ \E o \in Dicts({<<"A">>, <<"B">>}, Outcomes) :
           /\ outcome_dict' = o
           /\ \E order \in Perms(DOMAIN o) : items' = order
    /\ calls' = 1
    /\ pc' = "get_winner"
    /\ f' = <<>>
    /\ UNCHANGED <<i, total_R_votes, total_D_votes, result, prev, exc, msg>>
    /\ UNCHANGED <<value_type, n, lines, err_n, phase, out, ret, M>>

\* ---------------------------------------------------------------- specifications
LoadInit(vt) ==
    /\ value_type = vt
    /\ f = <<>>
    /\ n = 0
    /\ lines = EmptyDict
    /\ exc = "none"
    /\ msg = ""
    /\ err_n = 0
    /\ phase = 1
    /\ out = <<>>
    /\ ret = <<>>
    /\ M = EmptyDict

TallyInit ==
    /\ i = 0
    /\ total_R_votes = 0
    /\ total_D_votes = 0
    /\ result = <<>>
    /\ prev = <<>>

\* to_dict(filename) on any file, then the round trip
InitLoad ==
    /\ pc = "to_dict"
    /\ LoadInit("str")
    /\ TallyInit
    /\ elector_dict = EmptyDict
    /\ outcome_dict = EmptyDict
    /\ items = <<>>
    /\ calls = 0

NextLoad == ToDictRead \/ ToDictReread \/ ToDictReturn \/ Reserialize

SpecLoad == InitLoad /\ [][NextLoad]_vars

\* get_winner on any two mappings and any iteration order, called twice
Init ==
    /\ LoadInit("str")
    /\ pc = "get_winner"
    /\ TallyInit
    /\ elector_dict \in Dicts(States, ElectorValues)
    /\ outcome_dict \in Dicts(States, Outcomes)
    /\ items \in Perms(DOMAIN outcome_dict)
    /\ calls = 1

Next == TallyEntry \/ TallyReturn \/ CallAgain

Spec == Init /\ [][Next]_vars

\* read_data's to_dict(elector_file, value_type=int), then get_winner
InitElection ==
    /\ pc = "to_dict"
    /\ LoadInit("int")
    /\ TallyInit
    /\ elector_dict = EmptyDict
    /\ outcome_dict = EmptyDict
    /\ items = <<>>
    /\ calls = 0

NextElection == ToDictRead \/ ToDictReturn \/ StartTally \/ TallyEntry \/ TallyReturn

SpecElection == InitElection /\ [][NextElection]_vars

\* ---------------------------------------------------------------- get_winner: claims
Finished == pc \in {"returned", "raised"}

\* every outcome is 'R' or 'D' and every key of the outcome mapping has an elector count
ValidPair ==
    \A k \in DOMAIN outcome_dict :
        outcome_dict[k] \in {R, D} /\ k \in DOMAIN elector_dict

PartyTotal(party) ==
    SumOf(elector_dict, {k \in DOMAIN outcome_dict : outcome_dict[k] = party})

HasInvalid == \E k \in DOMAIN outcome_dict : outcome_dict[k] \notin {R, D}
HasMissing == \E k \in DOMAIN outcome_dict : k \notin DOMAIN elector_dict

\* the entry at position j of the iteration makes get_winner fail
Offends(j) ==
    \/ outcome_dict[items[j]] \notin {R, D}
    \/ items[j] \notin DOMAIN elector_dict

\* the first failing entry in iteration order has an outcome other than 'R' and 'D'
FirstOffenderInvalid ==
    \E j \in 1..Len(items) :
        /\ Offends(j)
        /\ \A h \in 1..(j - 1) : ~Offends(h)
        /\ outcome_dict[items[j]] \notin {R, D}

\* C1: for a valid pair of mappings get_winner does not fail, and it returns exactly
\* one pair (party, total): party is "R" iff the R total is larger, "D" iff the D
\* total is larger, "Tie" iff they are equal, and total is the sum of the elector
\* counts of the winning party's regions (the shared total for a tie).
C1_TallyDecision ==
    ValidPair =>
        /\ pc # "raised"
        /\ pc = "returned" =>
              LET rt == PartyTotal(R)
                  dt == PartyTotal(D)
              IN  /\ Len(result) = 2
                  /\ result[1] \in {"R", "D", "Tie"}
                  /\ result[1] = "R" <=> rt > dt
                  /\ result[1] = "D" <=> dt > rt
                  /\ result[1] = "Tie" <=> rt = dt
                  /\ result[2] = (IF result[1] = "D" THEN dt ELSE rt)

C1_Witness ==
    /\ pc = "returned"
    /\ calls = 1
    /\ ValidPair
    /\ Len(items) = 3
    /\ PartyTotal(R) = 2
    /\ result = <<"Tie", 2>>

\* C2 as stated: with an outcome other than 'R' and 'D' in the mapping, get_winner
\* ends in ValueError whatever the other entries are.
C2_Original ==
    (HasInvalid /\ Finished) => (pc = "raised" /\ exc = "ValueError" /\ result = <<>>)

\* C2 amended: with an outcome other than 'R' and 'D' in the mapping, get_winner
\* returns no result; it raises ValueError when the first failing entry in iteration
\* order is one with such an outcome, and KeyError when an 'R' or 'D' entry whose key
\* the elector mapping lacks comes before every such entry.
C2_InvalidOutcomeFails ==
    HasInvalid =>
        /\ pc # "returned"
        /\ result = <<>>
        /\ pc = "raised" =>
              /\ exc \in {"ValueError", "KeyError"}
              /\ exc = "ValueError" <=> FirstOffenderInvalid

C2_Witness ==
    /\ pc = "raised"
    /\ exc = "ValueError"
    /\ HasInvalid
    /\ i = 3
    /\ total_R_votes > 0
    /\ total_D_votes > 0

\* C3 as stated: with a key of the outcome mapping that the elector mapping lacks,
\* get_winner ends in KeyError whatever outcome is recorded for it.
C3_Original ==
    (HasMissing /\ Finished) => (pc = "raised" /\ exc = "KeyError" /\ result = <<>>)

\* C3 amended: with a key of the outcome mapping that the elector mapping lacks,
\* get_winner returns no result; it raises KeyError when the first failing entry in
\* iteration order is an 'R' or 'D' entry with such a key, and ValueError when an entry
\* with another outcome (the region's own included) comes first.
C3_MissingElectorFails ==
    HasMissing =>
        /\ pc # "returned"
        /\ result = <<>>
        /\ pc = "raised" =>
              /\ exc \in {"ValueError", "KeyError"}
              /\ exc = "KeyError" <=> ~FirstOffenderInvalid

C3_Witness ==
    /\ pc = "raised"
    /\ exc = "KeyError"
    /\ HasMissing
    /\ i = 3
    /\ total_R_votes > 0
    /\ total_D_votes > 0

\* a second call with the same two mappings has ended as the first one did
SameCallSameOutcome ==
    (calls = 2 /\ Finished /\ elector_dict = prev[1].elector_dict) =>
        (exc = prev[1].exc /\ result = prev[1].result)

\* C8: no step of get_winner, returning or raising, changes the elector mapping or
\* the outcome mapping, and a second call with the same two mappings ends with the
\* same (party, total) pair or the same exception.
C8_Pure ==
    [][/\ pc = "get_winner" =>
             (elector_dict' = elector_dict /\ outcome_dict' = outcome_dict)
       /\ SameCallSameOutcome']_vars

C8_Witness ==
    /\ calls = 2
    /\ pc = "returned"
    /\ Len(items) = 3
    /\ elector_dict = prev[1].elector_dict
    /\ result = prev[1].result
    /\ result[2] > 0

\* C9: a call with the same outcome mapping and an elector mapping that agrees with
\* the first one on every key of the outcome mapping (extra elector entries added,
\* removed or changed) ends as the first call did: the same exception or the same
\* pair, with the same two totals.
C9_OutcomeDrives ==
    (calls = 2 /\ Finished) =>
        /\ Agree(prev[1].elector_dict, elector_dict, outcome_dict)
        /\ exc = prev[1].exc
        /\ result = prev[1].result
        /\ total_R_votes = prev[1].total_R_votes
        /\ total_D_votes = prev[1].total_D_votes

C9_Witness ==
    /\ calls = 2
    /\ pc = "returned"
    /\ Len(items) = 2
    /\ DOMAIN prev[1].elector_dict = DOMAIN outcome_dict
    /\ DOMAIN elector_dict = States
    /\ \A k \in States \ DOMAIN outcome_dict : elector_dict[k] > 0
    /\ result = prev[1].result
    /\ result[2] > 0

\* ---------------------------------------------------------------- to_dict: claims
\* empty after trimming surrounding whitespace
Blank(line) == Strip(line) = <<>>

\* the tab-separated fields of the trimmed line
Fields(line) == Split(Strip(line))

\* a non-blank line that, trimmed, does not split into exactly two fields
Malformed(line) == ~Blank(line) /\ Len(Fields(line)) # 2

\* a non-blank line that, as it stands in the file, does not split into exactly two fields
RawMalformed(line) == ~Blank(line) /\ Len(Split(line)) # 2

FirstMalformed ==
    CHOOSE j \in 1..Len(f) : Malformed(f[j]) /\ \A h \in 1..(j - 1) : ~Malformed(f[h])

\* the last line of the file whose first field is k
LastWith(k) ==
    CHOOSE j \in 1..Len(f) :
        /\ ~Blank(f[j]) /\ Fields(f[j])[1] = k
        /\ \A h \in (j + 1)..Len(f) : Blank(f[h]) \/ Fields(f[h])[1] # k

\* C4 as stated: to_dict fails exactly when some non-blank line of the file, a leading
\* or trailing tab counted as a delimiter, does not split into exactly two fields.
C4_Original ==
    /\ pc = "loaded" => \A j \in 1..Len(f) : ~RawMalformed(f[j])
    /\ pc = "raised" => \E j \in 1..Len(f) : RawMalformed(f[j])

\* C4 amended: to_dict (identity value type) raises ValueError as soon as it reads a
\* line that is non-empty after trimming surrounding whitespace, tabs included, and
\* whose trimmed text does not split into exactly two fields on the tab; it returns
\* the mapping, skipping blank lines, when every non-blank line has exactly two
\* fields after trimming.
C4_FormatError ==
    /\ pc = "raised" => (exc = "ValueError" /\ msg = "columns" /\ Malformed(f[Len(f)]))
    /\ pc \in {"to_dict", "loaded"} => \A j \in 1..Len(f) : ~Malformed(f[j])
    /\ pc = "loaded" => (exc = "none" /\ ret = <<lines>>)

C4_Witness ==
    /\ pc = "loaded"
    /\ phase = 1
    /\ f = << <<>>, <<"A", TAB, "B", TAB>> >>
    /\ ret = << Store(EmptyDict, <<"A">>, <<"B">>) >>

\* C5: when to_dict fails on the number of columns, the line number in its message
\* is the 1-based position in the file of the first malformed line, blank lines
\* counted, and nothing is returned, the entries of earlier lines included.
C5_LineNumber ==
    (pc = "raised" /\ msg = "columns") =>
        /\ err_n = FirstMalformed
        /\ err_n = Len(f)
        /\ ret = <<>>

C5_Witness ==
    /\ pc = "raised"
    /\ msg = "columns"
    /\ Len(f) = 3
    /\ Blank(f[1])
    /\ DOMAIN lines # {}
    /\ err_n = 3
    /\ ret = <<>>

\* C6: the mapping to_dict returns has as keys exactly the first fields of the
\* non-blank lines (fields of the trimmed line), and each key's value is the
\* converted second field of the last line of the file with that key.
C6_LastWriteWins ==
    pc = "loaded" =>
        /\ ret = <<lines>>
        /\ DOMAIN lines = {Fields(f[j])[1] : j \in {h \in 1..Len(f) : ~Blank(f[h])}}
        /\ \A k \in DOMAIN lines :
               lines[k] = Convert(value_type, Fields(f[LastWith(k)])[2])

C6_Witness ==
    /\ pc = "loaded"
    /\ phase = 1
    /\ f = << <<"A", TAB, "A">>, <<"A", TAB, "B">> >>
    /\ ret = << Store(EmptyDict, <<"A">>, <<"B">>) >>

\* C7: the text made of one line key<TAB>value per pair of a mapping M that to_dict
\* returned (identity value type), in any order, loads without error and to_dict
\* returns a mapping equal to M.
C7_RoundTrip ==
    phase = 2 =>
        /\ pc # "raised"
        /\ pc = "loaded" => ret = <<M>>

C7_Witness ==
    /\ phase = 2
    /\ pc = "loaded"
    /\ M = Store(EmptyDict, <<"A", SP>>, <<SP, "B">>)
    /\ ret = <<M>>

\* ---------------------------------------------------------------- read_data and get_winner: claims
\* entries of outcome_dict.items() whose elector count has been added
Processed == IF pc = "raised" THEN i - 1 ELSE i

PrefixTotal(party) ==
    SumOf(elector_dict, {items[j] : j \in {h \in 1..Processed : outcome_dict[items[h]] = party}})

\* C10 as stated: with any elector mapping that to_dict builds with int, both running
\* totals are >= 0 after every prefix of the entries, and each is the sum of the
\* elector counts of the processed regions of its party.
C10_Original ==
    calls = 1 =>
        /\ total_R_votes >= 0
        /\ total_D_votes >= 0
        /\ total_R_votes = PrefixTotal(R)
        /\ total_D_votes = PrefixTotal(D)

\* C10 amended: after every prefix of the entries each running total is the sum of
\* the elector counts of the processed regions of its party; the totals are >= 0
\* when no elector count of the mapping is negative (int accepts "-1", and to_dict
\* stores it).
C10_RunningTotals ==
    calls = 1 =>
        /\ total_R_votes = PrefixTotal(R)
        /\ total_D_votes = PrefixTotal(D)
        /\ (\A k \in DOMAIN elector_dict : elector_dict[k] >= 0) =>
               (total_R_votes >= 0 /\ total_D_votes >= 0)

C10_Witness ==
    /\ calls = 1
    /\ pc = "get_winner"
    /\ i = 2
    /\ total_R_votes = 1
    /\ total_D_votes = 1
====
